---- MODULE Spec2Model ----
(***************************************************************************)
(* The commercetools custom object resource                                *)
(* (commercetools/resource_custom_object.go): its four handlers Create,    *)
(* Read, Update and Delete, the importer, the value decoder and the        *)
(* per-id mutex, driven against the remote store the handlers call.        *)
(*                                                                         *)
(* The handlers are translated from the Go source.  The remote store and   *)
(* the mutex table live outside the source file; they follow the contract  *)
(* of the specification (sections 4.2 and 4.3).                            *)
(***************************************************************************)
EXTENDS Integers, FiniteSets, Sequences, TLC

VARIABLES
    store,      \* remote store: identity -> object slot
    nextId,     \* next remoteId the store hands out
    local,      \* host-persisted state of every local resource instance
    proc,       \* every thread of control: its position and its ResourceData
    ctMutexKV,  \* the ids whose mutex is held
    lastRet,    \* history: version returned by the last successful write, per identity
    delOk,      \* history: successful Deletes of a resource among those still overlapping
    scen,       \* history: progress through the end-to-end scenario
    last        \* history: the step just taken

vars == <<store, nextId, local, proc, ctMutexKV, lastRet, delOk, scen, last>>

----------------------------------------------------------------------------
(* Bounds *)

MaxIds == 2         \* remoteIds the store can hand out
MaxVersion == 2     \* highest version the store assigns to an identity

----------------------------------------------------------------------------
(* Inputs *)

Containers == {"test", "c2"}
Keys == {"k1", "k2"}
Identities == Containers \X Keys
Resources == {"r1", "r2"}
Procs == {"p1", "p2"}

ObjectTexts == {"{a:1}", "{a:2}"}
ArrayTexts == {"[1]"}
NumberTexts == {"7"}
StringTexts == {"'s'"}
BooleanTexts == {"true"}
MalformedTexts == {"{a:"}
WellFormedTexts == ObjectTexts \cup ArrayTexts \cup NumberTexts
                       \cup StringTexts \cup BooleanTexts
ValueTexts == WellFormedTexts \cup MalformedTexts

EmptyDoc == "{}"
NoId == 0
NoVersion == 0
Unset == [id |-> NoId, container |-> "", key |-> "", value |-> "", version |-> NoVersion]

\* Mutant of _decodeCustomObjectValue: the text is passed on undecoded.
_decodeCustomObjectValue_Raw(value) == value

\* _decodeCustomObjectValue: json.Unmarshal into a map; the error is dropped,
\* so everything that is not a JSON object leaves the map empty.
_decodeCustomObjectValue(value) ==
    IF value \in ObjectTexts \cup {EmptyDoc} THEN value ELSE EmptyDoc

IdentityOf(d) == <<d.container, d.key>>

----------------------------------------------------------------------------
(* The remote store (specification 4.2).  A slot keeps the identity's     *)
(* version after a delete, so versions of an identity never repeat.       *)

NoObject(v) == [live |-> FALSE, id |-> NoId, value |-> "", version |-> v]
Failure(kind) == [ok |-> FALSE, err |-> kind, obj |-> NoObject(0)]
Success(o) == [ok |-> TRUE, err |-> "", obj |-> o]

Live(st, ident) == ident \in Identities /\ st[ident].live

\* CreateOrUpdate(identity, value, version?): the result of the call.
CustomObjectCreate(st, nid, ident, value, version, fault) ==
    IF fault THEN Failure("Transport")
    ELSE IF ident \notin Identities THEN Failure("Validation")
    ELSE IF version = NoVersion
         THEN IF st[ident].live THEN Failure("Conflict")
              ELSE Success([live |-> TRUE, id |-> nid, value |-> value,
                            version |-> st[ident].version + 1])
         ELSE IF ~st[ident].live THEN Failure("NotFound")
              ELSE IF st[ident].version # version THEN Failure("VersionConflict")
              ELSE Success([st[ident] EXCEPT !.value = value, !.version = @ + 1])

\* FetchByIdentity(identity).
CustomObjectGetWithContainerAndKey(st, ident, fault) ==
    IF fault THEN Failure("Transport")
    ELSE IF ~Live(st, ident) THEN Failure("NotFound")
    ELSE Success(st[ident])

\* DeleteByIdentity(identity, version, force).
CustomObjectDeleteWithContainerAndKey(st, ident, version, force, fault) ==
    IF fault THEN Failure("Transport")
    ELSE IF ~Live(st, ident) THEN Failure("NotFound")
    ELSE IF ~force /\ st[ident].version # version THEN Failure("VersionConflict")
    ELSE Success(st[ident])

StoreAfterWrite(st, ident, res) ==
    IF res.ok THEN [st EXCEPT ![ident] = res.obj] ELSE st

StoreAfterDelete(st, ident, res) ==
    IF res.ok THEN [st EXCEPT ![ident] = NoObject(@.version)] ELSE st

----------------------------------------------------------------------------
(* The handlers.  d is the handler's ResourceData: d.Get returns the      *)
(* planned fields and whatever the handler has Set; the prior state is    *)
(* only visible through HasChange.                                        *)

HasChange(old, d, field) == old[field] # d[field]

\* Mutant of resourceCustomObjectCreate: the call's error is logged and
\* dropped, as Update does with its delete call.
resourceCustomObjectCreate_ErrorDropped(d, st, nid, fault) ==
    LET value == _decodeCustomObjectValue(d.value)
        res == CustomObjectCreate(st, nid, IdentityOf(d), value, NoVersion, fault)
    IN  [ok |-> TRUE,
         d |-> [d EXCEPT !.id = res.obj.id, !.version = res.obj.version],
         store |-> StoreAfterWrite(st, IdentityOf(d), res),
         wrote |-> res.ok]

\* resourceCustomObjectCreate: one remote call, then SetId and Set("version").
resourceCustomObjectCreate(d, st, nid, fault) ==
    LET value == _decodeCustomObjectValue(d.value)
        res == CustomObjectCreate(st, nid, IdentityOf(d), value, NoVersion, fault)
    IN  IF ~res.ok
        THEN [ok |-> FALSE, d |-> d, store |-> st, wrote |-> FALSE]
        ELSE [ok |-> TRUE,
              d |-> [d EXCEPT !.id = res.obj.id, !.version = res.obj.version],
              store |-> StoreAfterWrite(st, IdentityOf(d), res),
              wrote |-> TRUE]

\* d.Set("value", customObject.Value): the field is a TypeString (line 40)
\* and customObject.Value is the decoded document, not its text.  Set
\* returns an error for a value that is not of the field's type and writes
\* nothing; line 96 drops that error.  Every document the store holds is a
\* JSON object, so the field keeps what it held.
SetValue(d, doc) ==
    IF doc \in ObjectTexts \cup {EmptyDoc} THEN d ELSE [d EXCEPT !.value = doc]

\* Mutant of resourceCustomObjectRead: a 404 is returned like any other error.
resourceCustomObjectRead_NotFoundIsError(d, st, fault) ==
    LET res == CustomObjectGetWithContainerAndKey(st, IdentityOf(d), fault)
    IN  IF ~res.ok
        THEN [ok |-> FALSE, d |-> d]
        ELSE [ok |-> TRUE,
              d |-> SetValue([d EXCEPT !.container = IdentityOf(d)[1],
                                       !.key = IdentityOf(d)[2],
                                       !.version = res.obj.version],
                             res.obj.value)]

\* resourceCustomObjectRead: fetch by the local container and key; a 404
\* clears the id and is no error; a hit Sets the four fields.
resourceCustomObjectRead(d, st, fault) ==
    LET res == CustomObjectGetWithContainerAndKey(st, IdentityOf(d), fault)
    IN  IF ~res.ok
        THEN IF res.err = "NotFound"
             THEN [ok |-> TRUE, d |-> [d EXCEPT !.id = NoId]]
             ELSE [ok |-> FALSE, d |-> d]
        ELSE [ok |-> TRUE,
              d |-> SetValue([d EXCEPT !.container = IdentityOf(d)[1],
                                       !.key = IdentityOf(d)[2],
                                       !.version = res.obj.version],
                             res.obj.value)]

\* Mutant of resourceCustomObjectUpdate: the returned version is not Set.
resourceCustomObjectUpdate_VersionNotSet(old, d, st, nid, fault) ==
    LET value == _decodeCustomObjectValue(d.value)
        changed == HasChange(old, d, "container") \/ HasChange(old, d, "key")
        version == IF changed THEN NoVersion ELSE d.version
        res == CustomObjectCreate(st, nid, IdentityOf(d), value, version, fault)
    IN  IF ~res.ok
        THEN [ok |-> FALSE, d |-> d, store |-> st, wrote |-> FALSE,
              changed |-> changed, pending |-> FALSE]
        ELSE [ok |-> TRUE,
              d |-> [d EXCEPT !.id = res.obj.id],
              store |-> StoreAfterWrite(st, IdentityOf(d), res),
              wrote |-> TRUE, changed |-> changed, pending |-> changed]

\* Mutant of resourceCustomObjectUpdate: the draft carries no version.
resourceCustomObjectUpdate_NoVersionSent(old, d, st, nid, fault) ==
    LET value == _decodeCustomObjectValue(d.value)
        changed == HasChange(old, d, "container") \/ HasChange(old, d, "key")
        res == CustomObjectCreate(st, nid, IdentityOf(d), value, NoVersion, fault)
    IN  IF ~res.ok
        THEN [ok |-> FALSE, d |-> d, store |-> st, wrote |-> FALSE,
              changed |-> changed, pending |-> FALSE]
        ELSE [ok |-> TRUE,
              d |-> [d EXCEPT !.id = res.obj.id, !.version = res.obj.version],
              store |-> StoreAfterWrite(st, IdentityOf(d), res),
              wrote |-> TRUE, changed |-> changed, pending |-> changed]

\* Mutant of resourceCustomObjectUpdate: with the identity changed, the
\* delete call is made although the create call failed.
resourceCustomObjectUpdate_DeleteAfterFailedCreate(old, d, st, nid, fault) ==
    LET value == _decodeCustomObjectValue(d.value)
        changed == HasChange(old, d, "container") \/ HasChange(old, d, "key")
        version == IF changed THEN NoVersion ELSE d.version
        res == CustomObjectCreate(st, nid, IdentityOf(d), value, version, fault)
    IN  IF ~res.ok
        THEN [ok |-> FALSE, d |-> d, store |-> st, wrote |-> FALSE,
              changed |-> changed, pending |-> changed]
        ELSE [ok |-> TRUE,
              d |-> [d EXCEPT !.id = res.obj.id, !.version = res.obj.version],
              store |-> StoreAfterWrite(st, IdentityOf(d), res),
              wrote |-> TRUE, changed |-> changed, pending |-> changed]

\* resourceCustomObjectUpdate up to and including its CustomObjectCreate
\* call.  pending: the identity changed and the delete call is still to come.
resourceCustomObjectUpdate(old, d, st, nid, fault) ==
    LET value == _decodeCustomObjectValue(d.value)
        changed == HasChange(old, d, "container") \/ HasChange(old, d, "key")
        version == IF changed THEN NoVersion ELSE d.version
        res == CustomObjectCreate(st, nid, IdentityOf(d), value, version, fault)
    IN  IF ~res.ok
        THEN [ok |-> FALSE, d |-> d, store |-> st, wrote |-> FALSE,
              changed |-> changed, pending |-> FALSE]
        ELSE [ok |-> TRUE,
              d |-> [d EXCEPT !.id = res.obj.id, !.version = res.obj.version],
              store |-> StoreAfterWrite(st, IdentityOf(d), res),
              wrote |-> TRUE, changed |-> changed, pending |-> changed]

\* The arguments of the delete call of an identity-changing Update: all
\* three are read with d.Get after SetId and Set("version").
UpdateDeleteCall(old, d) ==
    [container |-> d.container, key |-> d.key, version |-> d.version, force |-> TRUE]

\* Mutant of resourceCustomObjectUpdateDelete: the error of the delete call
\* is returned.
resourceCustomObjectUpdateDelete_ErrorReturned(old, d, st, fault) ==
    LET call == UpdateDeleteCall(old, d)
        ident == <<call.container, call.key>>
        res == CustomObjectDeleteWithContainerAndKey(st, ident, call.version,
                                                     call.force, fault)
    IN  [ok |-> res.ok, d |-> d, store |-> StoreAfterDelete(st, ident, res),
         call |-> call, delOk |-> res.ok]

\* resourceCustomObjectUpdate from its delete call to its return: the
\* call's error is logged and dropped.
resourceCustomObjectUpdateDelete(old, d, st, fault) ==
    LET call == UpdateDeleteCall(old, d)
        ident == <<call.container, call.key>>
        res == CustomObjectDeleteWithContainerAndKey(st, ident, call.version,
                                                     call.force, fault)
    IN  [ok |-> TRUE, d |-> d, store |-> StoreAfterDelete(st, ident, res),
         call |-> call, delOk |-> res.ok]

\* Mutant of MutexKey: one mutex for all resources.
MutexKey_Global(d) == NoId

\* The key of the mutex Delete takes: ctMutexKV.Lock(d.Id()).
MutexKey(d) == d.id

\* Mutant of DeferredUnlock: the Unlock is not deferred but placed before
\* the final return nil, so the error returns skip it.
DeferredUnlock_OnSuccessOnly(kv, d, ok) == IF ok THEN kv \ {MutexKey(d)} ELSE kv

\* defer ctMutexKV.Unlock(d.Id()): runs on every return of Delete, whether
\* the error returned is nil (ok) or not.
DeferredUnlock(kv, d, ok) == kv \ {MutexKey(d)}

\* Mutant of resourceCustomObjectDeleteFetch: a 404 means the object is
\* gone already and Delete returns nil, as Read does.
resourceCustomObjectDeleteFetch_NotFoundIsDone(d, st, fault) ==
    LET res == CustomObjectGetWithContainerAndKey(st, IdentityOf(d), fault)
    IN  IF ~res.ok
        THEN [returned |-> TRUE, ok |-> res.err = "NotFound", version |-> NoVersion]
        ELSE [returned |-> FALSE, ok |-> TRUE, version |-> res.obj.version]

\* Mutant of resourceCustomObjectDeleteFetch: the fetch error is not looked
\* at and Delete goes on to its delete call.
resourceCustomObjectDeleteFetch_ErrorIgnored(d, st, fault) ==
    LET res == CustomObjectGetWithContainerAndKey(st, IdentityOf(d), fault)
    IN  [returned |-> FALSE, ok |-> TRUE, version |-> res.obj.version]

\* resourceCustomObjectDelete, its fetch (the mutex is held).  returned:
\* the handler returns here, with ok for a nil error; any failed fetch,
\* a 404 included, returns the error.
resourceCustomObjectDeleteFetch(d, st, fault) ==
    LET res == CustomObjectGetWithContainerAndKey(st, IdentityOf(d), fault)
    IN  IF ~res.ok
        THEN [returned |-> TRUE, ok |-> FALSE, version |-> NoVersion]
        ELSE [returned |-> FALSE, ok |-> TRUE, version |-> res.obj.version]

\* Mutant of resourceCustomObjectDeleteCall: the version sent is the one
\* the resource holds, d.Get("version").
resourceCustomObjectDeleteCall_LocalVersion(d, fetched, st, fault) ==
    LET call == [container |-> d.container, key |-> d.key,
                 version |-> d.version, force |-> FALSE]
        res == CustomObjectDeleteWithContainerAndKey(st, IdentityOf(d), d.version,
                                                     FALSE, fault)
    IN  [ok |-> res.ok, store |-> StoreAfterDelete(st, IdentityOf(d), res),
         call |-> call]

\* resourceCustomObjectDelete, its delete call with the fetched version.
resourceCustomObjectDeleteCall(d, fetched, st, fault) ==
    LET call == [container |-> d.container, key |-> d.key,
                 version |-> fetched, force |-> FALSE]
        res == CustomObjectDeleteWithContainerAndKey(st, IdentityOf(d), fetched,
                                                     FALSE, fault)
    IN  [ok |-> res.ok, store |-> StoreAfterDelete(st, IdentityOf(d), res),
         call |-> call]

----------------------------------------------------------------------------
(* History: the step just taken and the end-to-end scenario               *)

NoCall == [container |-> "", key |-> "", version |-> NoVersion, force |-> FALSE]

\* op: the step; res: its resource; ok: the handler's return (nil error);
\* fault: a transport failure hit its remote call; ident: the identity its
\* remote call addressed; old: the resource's state on entry; post: the
\* ResourceData on a nil return (old on an error); obj: the slot of ident
\* before the call; prevRet: the version the previous successful write to
\* ident returned;
\* wrote: a write succeeded; called/call/callOk: the delete call issued;
\* groupOk: the Deletes of the resource that have succeeded, this one
\* included, among those that overlap with this one; frame: the step left
\* the store as it was; by: the thread that took the step; text: the value
\* text the handler was given; fetched: the version Delete's fetch returned.
NoEvent ==
    [op |-> "Init", res |-> "", by |-> "", text |-> "", fetched |-> NoVersion,
     ok |-> TRUE, fault |-> FALSE, changed |-> FALSE,
     ident |-> <<"", "">>, old |-> Unset, post |-> Unset, obj |-> NoObject(0),
     prevRet |-> NoVersion, wrote |-> FALSE,
     called |-> FALSE, call |-> NoCall, callOk |-> FALSE, groupOk |-> 0,
     frame |-> TRUE]

SlotOf(st, ident) == IF ident \in Identities THEN st[ident] ELSE NoObject(0)
RetOf(ret, ident) == IF ident \in Identities THEN ret[ident] ELSE NoVersion

\* What the host persists when a handler returns nil: the ResourceData, or
\* nothing at all once its id is empty.
Persisted(d) == IF d.id = NoId THEN Unset ELSE d

\* Threads inside Delete for resource r, other than p.
OtherDeletes(p, r) ==
    {q \in Procs \ {p} : proc[q].res = r /\ proc[q].pc \in {"lock", "fetch", "delete"}}

Idle == [pc |-> "idle", res |-> "", d |-> Unset, old |-> Unset, fetched |-> NoVersion]
Quiet(p) == \A q \in Procs \ {p} : proc[q].pc = "idle"

PristineStore == [i \in Identities |-> NoObject(0)]

\* The end-to-end scenario of the specification (section 8), on one resource
\* with no other step in between: 1 Create, 2 Read, 3 Update of the value,
\* 4 Update of the key, 5 Delete, 6 Read.  e2e: it started on a pristine
\* store with the scenario's inputs.
ScenIdle == [step |-> 0, res |-> "", e2e |-> FALSE]

ScenNext(s, ev, quiet, pristine) ==
    IF ~quiet THEN ScenIdle
    ELSE IF ev.op \in {"UpdateCreate", "DeleteStart", "DeleteLock", "DeleteFetch"}
         THEN IF ev.res = s.res THEN s ELSE ScenIdle
    ELSE IF ev.fault /\ ~(ev.op = "Update" /\ ev.called) THEN ScenIdle
    ELSE IF ev.op = "Create"
         THEN [step |-> 1, res |-> ev.res,
               e2e |-> pristine /\ ev.ident = <<"test", "k1">> /\ ev.post.value = "{a:1}"]
    ELSE IF ev.res # s.res THEN ScenIdle
    ELSE IF s.step = 1 /\ ev.op = "Read" THEN [s EXCEPT !.step = 2]
    ELSE IF s.step = 2 /\ s.e2e /\ ev.op = "Update" /\ ~ev.changed
                       /\ ev.post.value = "{a:2}"
         THEN [s EXCEPT !.step = 3]
    ELSE IF s.step = 3 /\ ev.op = "Update" /\ ev.changed
                       /\ IdentityOf(ev.post) = <<"test", "k2">>
                       /\ ev.post.value = "{a:2}"
         THEN [s EXCEPT !.step = 4]
    ELSE IF s.step = 4 /\ ev.op = "Delete" THEN [s EXCEPT !.step = 5]
    ELSE IF s.step = 5 /\ ev.op = "Read" THEN [s EXCEPT !.step = 6]
    ELSE ScenIdle

----------------------------------------------------------------------------
(* Initial state: an empty store, no local resource, every thread idle     *)

Init ==
    /\ store = PristineStore
    /\ nextId = 1
    /\ local = [r \in Resources |-> Unset]
    /\ proc = [p \in Procs |-> Idle]
    /\ ctMutexKV = {}
    /\ lastRet = [i \in Identities |-> NoVersion]
    /\ delOk = [r \in Resources |-> 0]
    /\ scen = ScenIdle
    /\ last = NoEvent

----------------------------------------------------------------------------
(* Actions *)

\* The host applies a new resource: Create with the configured fields.
Create(p, r, c, k, t, fault) ==
    /\ proc[p].pc = "idle"
    /\ local[r].id = NoId
    /\ LET d == [id |-> NoId, container |-> c, key |-> k, value |-> t,
                 version |-> NoVersion]
           out == resourceCustomObjectCreate(d, store, nextId, fault)
       IN  /\ out.wrote => nextId <= MaxIds /\ out.d.version <= MaxVersion
           /\ store' = out.store
           /\ nextId' = IF out.wrote THEN nextId + 1 ELSE nextId
           /\ local' = [local EXCEPT ![r] = IF out.ok THEN Persisted(out.d) ELSE @]
           /\ lastRet' = IF out.wrote THEN [lastRet EXCEPT ![<<c, k>>] = out.d.version]
                                      ELSE lastRet
           /\ last' = [NoEvent EXCEPT !.op = "Create", !.res = r, !.by = p, !.text = t,
                           !.ok = out.ok,
                           !.fault = fault, !.ident = <<c, k>>, !.old = local[r],
                           !.post = IF out.ok THEN out.d ELSE local[r],
                           !.obj = store[<<c, k>>],
                           !.prevRet = lastRet[<<c, k>>], !.wrote = out.wrote, !.frame = (store' = store)]
           /\ scen' = ScenNext(scen, last', Quiet(p), store = PristineStore)
    /\ UNCHANGED <<proc, ctMutexKV, delOk>>

\* The importer (ImportStatePassthrough): only the id is set.
Import(r, id) ==
    /\ local[r].id = NoId
    /\ \E i \in Identities : store[i].live /\ store[i].id = id
    /\ local' = [local EXCEPT ![r] = [Unset EXCEPT !.id = id]]
    /\ last' = [NoEvent EXCEPT !.op = "Import", !.res = r, !.old = local[r],
                    !.post = local'[r]]
    /\ scen' = ScenIdle
    /\ UNCHANGED <<store, nextId, proc, ctMutexKV, lastRet, delOk>>

\* The host refreshes a resource it knows.
Read(p, r, fault) ==
    /\ proc[p].pc = "idle"
    /\ local[r] # Unset
    /\ UNCHANGED <<store, nextId, proc, ctMutexKV, lastRet, delOk>>
    /\ LET d == local[r]
           out == resourceCustomObjectRead(d, store, fault)
       IN  /\ local' = [local EXCEPT ![r] = IF out.ok THEN Persisted(out.d) ELSE @]
           /\ last' = [NoEvent EXCEPT !.op = "Read", !.res = r, !.by = p, !.ok = out.ok,
                           !.fault = fault, !.ident = IdentityOf(d), !.old = d,
                           !.post = out.d, !.obj = SlotOf(store, IdentityOf(d)),
                           !.frame = (store' = store)]
           /\ scen' = ScenNext(scen, last', Quiet(p), FALSE)

\* The host applies a change of container, key or value: Update up to and
\* including its create call.  With the identity changed and the call
\* successful, the delete call is still to come.
Update(p, r, c, k, t, fault) ==
    /\ proc[p].pc = "idle"
    /\ local[r].id # NoId
    /\ <<c, k, t>> # <<local[r].container, local[r].key, local[r].value>>
    /\ LET old == local[r]
           d == [old EXCEPT !.container = c, !.key = k, !.value = t]
           out == resourceCustomObjectUpdate(old, d, store, nextId, fault)
       IN  /\ out.wrote => out.d.id <= MaxIds /\ out.d.version <= MaxVersion
           /\ store' = out.store
           /\ nextId' = IF out.wrote /\ out.changed THEN nextId + 1 ELSE nextId
           /\ lastRet' = IF out.wrote THEN [lastRet EXCEPT ![<<c, k>>] = out.d.version]
                                      ELSE lastRet
           /\ proc' = IF out.pending
                      THEN [proc EXCEPT ![p] = [pc |-> "update_delete", res |-> r,
                                                d |-> out.d, old |-> old,
                                                fetched |-> NoVersion]]
                      ELSE proc
           /\ local' = IF out.ok /\ ~out.pending
                       THEN [local EXCEPT ![r] = Persisted(out.d)] ELSE local
           /\ last' = [NoEvent EXCEPT
                           !.op = IF out.pending THEN "UpdateCreate" ELSE "Update",
                           !.res = r, !.by = p, !.text = t,
                           !.ok = out.ok, !.fault = fault,
                           !.changed = out.changed, !.ident = <<c, k>>, !.old = old,
                           !.post = IF out.ok THEN out.d ELSE old,
                           !.obj = store[<<c, k>>],
                           !.prevRet = lastRet[<<c, k>>], !.wrote = out.wrote, !.frame = (store' = store)]
           /\ scen' = ScenNext(scen, last', Quiet(p), FALSE)
    /\ UNCHANGED <<ctMutexKV, delOk>>

\* Update with the identity changed: the delete call and the return.
UpdateDelete(p, fault) ==
    /\ proc[p].pc = "update_delete"
    /\ LET me == proc[p]
           out == resourceCustomObjectUpdateDelete(me.old, me.d, store, fault)
       IN  /\ store' = out.store
           /\ local' = [local EXCEPT ![me.res] = Persisted(out.d)]
           /\ last' = [NoEvent EXCEPT !.op = "Update", !.res = me.res, !.by = p,
                           !.text = me.d.value, !.ok = out.ok,
                           !.fault = fault, !.changed = TRUE,
                           !.ident = <<out.call.container, out.call.key>>,
                           !.old = me.old, !.post = out.d,
                           !.obj = SlotOf(store, <<out.call.container, out.call.key>>),
                           !.called = TRUE, !.call = out.call, !.callOk = out.delOk,
                           !.frame = (store' = store)]
           /\ scen' = ScenNext(scen, last', Quiet(p), FALSE)
    /\ proc' = [proc EXCEPT ![p] = Idle]
    /\ UNCHANGED <<nextId, ctMutexKV, lastRet, delOk>>

\* The host destroys a resource: Delete is entered.
DeleteStart(p, r) ==
    /\ proc[p].pc = "idle"
    /\ local[r].id # NoId
    /\ proc' = [proc EXCEPT ![p] = [pc |-> "lock", res |-> r, d |-> local[r],
                                    old |-> local[r], fetched |-> NoVersion]]
    /\ last' = [NoEvent EXCEPT !.op = "DeleteStart", !.res = r, !.by = p,
                    !.ident = IdentityOf(local[r]), !.old = local[r],
                    !.post = local[r]]
    /\ scen' = ScenNext(scen, last', Quiet(p), FALSE)
    /\ UNCHANGED <<store, nextId, local, ctMutexKV, lastRet, delOk>>

\* ctMutexKV.Lock(d.Id()) blocks until the mutex of the id is free.
DeleteLock(p) ==
    /\ proc[p].pc = "lock"
    /\ MutexKey(proc[p].d) \notin ctMutexKV
    /\ ctMutexKV' = ctMutexKV \cup {MutexKey(proc[p].d)}
    /\ proc' = [proc EXCEPT ![p].pc = "fetch"]
    /\ last' = [NoEvent EXCEPT !.op = "DeleteLock", !.res = proc[p].res, !.by = p,
                    !.ident = IdentityOf(proc[p].d), !.old = proc[p].old,
                    !.post = proc[p].d]
    /\ scen' = ScenNext(scen, last', Quiet(p), FALSE)
    /\ UNCHANGED <<store, nextId, local, lastRet, delOk>>

\* Delete's fetch; a failed fetch returns the error (the deferred Unlock runs).
DeleteFetch(p, fault) ==
    /\ proc[p].pc = "fetch"
    /\ LET me == proc[p]
           out == resourceCustomObjectDeleteFetch(me.d, store, fault)
           done == out.returned /\ out.ok
       IN  /\ proc' = [proc EXCEPT ![p] = IF out.returned THEN Idle
                                          ELSE [me EXCEPT !.pc = "delete",
                                                          !.fetched = out.version]]
           /\ ctMutexKV' = IF out.returned THEN DeferredUnlock(ctMutexKV, me.d, out.ok)
                                            ELSE ctMutexKV
           /\ local' = IF done THEN [local EXCEPT ![me.res] = Unset] ELSE local
           /\ delOk' = IF ~out.returned THEN delOk
                       ELSE [delOk EXCEPT ![me.res] =
                                IF OtherDeletes(p, me.res) = {} THEN 0
                                ELSE IF done THEN @ + 1 ELSE @]
           /\ last' = [NoEvent EXCEPT
                           !.op = IF out.returned THEN "Delete" ELSE "DeleteFetch",
                           !.res = me.res, !.by = p, !.fetched = out.version,
                           !.ok = out.ok, !.fault = fault,
                           !.ident = IdentityOf(me.d), !.old = me.old, !.post = me.d,
                           !.obj = SlotOf(store, IdentityOf(me.d)),
                           !.groupOk = delOk[me.res] + (IF done THEN 1 ELSE 0)]
           /\ scen' = ScenNext(scen, last', Quiet(p), FALSE)
    /\ UNCHANGED <<store, nextId, lastRet>>

\* Delete's delete call and return (the deferred Unlock runs); after a
\* successful Delete the host drops the resource.
DeleteCall(p, fault) ==
    /\ proc[p].pc = "delete"
    /\ LET me == proc[p]
           out == resourceCustomObjectDeleteCall(me.d, me.fetched, store, fault)
       IN  /\ store' = out.store
           /\ local' = IF out.ok THEN [local EXCEPT ![me.res] = Unset] ELSE local
           /\ delOk' = [delOk EXCEPT ![me.res] =
                           IF OtherDeletes(p, me.res) = {} THEN 0
                           ELSE IF out.ok THEN @ + 1 ELSE @]
           /\ last' = [NoEvent EXCEPT !.op = "Delete", !.res = me.res, !.by = p,
                           !.fetched = me.fetched, !.ok = out.ok,
                           !.fault = fault, !.ident = IdentityOf(me.d),
                           !.old = me.old, !.post = me.d,
                           !.obj = SlotOf(store, IdentityOf(me.d)),
                           !.called = TRUE, !.call = out.call, !.callOk = out.ok,
                           !.groupOk = delOk[me.res] + (IF out.ok THEN 1 ELSE 0),
                           !.frame = (store' = store)]
           /\ scen' = ScenNext(scen, last', Quiet(p), FALSE)
           /\ ctMutexKV' = DeferredUnlock(ctMutexKV, me.d, out.ok)
    /\ proc' = [proc EXCEPT ![p] = Idle]
    /\ UNCHANGED <<nextId, lastRet>>

\* The host applies one operation at a time, on its thread Host.
Host == "p1"
HostResources == {"r1"}

\* A transport failure does not depend on the value sent: one text stands
\* for all of them in the calls that fail that way.
FaultTexts == {"{a:1}"}

Next ==
    \/ \E p \in {Host}, r \in HostResources, c \in Containers, k \in Keys,
          t \in ValueTexts : Create(p, r, c, k, t, FALSE)
    \/ \E p \in {Host}, r \in HostResources, c \in Containers, k \in Keys,
          t \in FaultTexts : Create(p, r, c, k, t, TRUE)
    \/ \E r \in HostResources, id \in 1..MaxIds : Import(r, id)
    \/ \E p \in {Host}, r \in HostResources, fault \in BOOLEAN : Read(p, r, fault)
    \/ \E p \in {Host}, r \in HostResources, c \in Containers, k \in Keys,
          t \in ValueTexts : Update(p, r, c, k, t, FALSE)
    \/ \E p \in {Host}, r \in HostResources, c \in Containers, k \in Keys,
          t \in FaultTexts : Update(p, r, c, k, t, TRUE)
    \/ \E p \in {Host}, fault \in BOOLEAN : UpdateDelete(p, fault)
    \/ \E p \in {Host}, r \in HostResources : DeleteStart(p, r)
    \/ \E p \in {Host} : DeleteLock(p)
    \/ \E p \in {Host}, fault \in BOOLEAN : DeleteFetch(p, fault)
    \/ \E p \in {Host}, fault \in BOOLEAN : DeleteCall(p, fault)

Spec == Init /\ [][Next]_vars

----------------------------------------------------------------------------
(* Concurrent Deletes: two threads, two resources, nothing but Delete.     *)
(* The initial states are those the host reaches by creating (and          *)
(* updating in place) r1 and, possibly, r2 at another identity.  The       *)
(* version r1 holds may be older than the store's: the object was written  *)
(* again, through another resource or another client, since r1 was read.   *)

Created(id, ident, doc, version) ==
    [id |-> id, container |-> ident[1], key |-> ident[2], value |-> doc,
     version |-> version]

InitDelete ==
    \E i1 \in Identities, i2 \in Identities, two \in BOOLEAN,
       v1 \in 1..MaxVersion, v2 \in 1..MaxVersion, held \in 1..MaxVersion,
       doc \in ObjectTexts :
        /\ i1 # i2
        /\ held <= v1
        /\ MaxIds >= 2
        /\ store = [i \in Identities |->
                       IF i = i1
                       THEN [live |-> TRUE, id |-> 1, value |-> doc, version |-> v1]
                       ELSE IF two /\ i = i2
                       THEN [live |-> TRUE, id |-> 2, value |-> doc, version |-> v2]
                       ELSE NoObject(0)]
        /\ nextId = IF two THEN 3 ELSE 2
        /\ local = [r \in Resources |->
                       IF r = "r1" THEN Created(1, i1, doc, held)
                       ELSE IF two THEN Created(2, i2, doc, v2) ELSE Unset]
        /\ lastRet = [i \in Identities |-> store[i].version]
        /\ proc = [p \in Procs |-> Idle]
        /\ ctMutexKV = {}
        /\ delOk = [r \in Resources |-> 0]
        /\ scen = ScenIdle
        /\ last = NoEvent

NextDelete ==
    \/ \E p \in Procs, r \in Resources : DeleteStart(p, r)
    \/ \E p \in Procs : DeleteLock(p)
    \/ \E p \in Procs, fault \in BOOLEAN : DeleteFetch(p, fault)
    \/ \E p \in Procs, fault \in BOOLEAN : DeleteCall(p, fault)

SpecDelete == InitDelete /\ [][NextDelete]_vars

\* Fair scheduling: a thread inside Delete goes on with its remote calls,
\* and a thread waiting in Lock gets the mutex if it is free again and
\* again (sync.Mutex hands the lock to a starving waiter).  The host is
\* not obliged to start a Delete.
FairDelete ==
    \A p \in Procs :
        /\ SF_vars(DeleteLock(p))
        /\ WF_vars(\E fault \in BOOLEAN : DeleteFetch(p, fault))
        /\ WF_vars(\E fault \in BOOLEAN : DeleteCall(p, fault))

SpecDeleteFair == SpecDelete /\ FairDelete

----------------------------------------------------------------------------
(* Concurrent Updates and Deletes: two threads apply Update and Delete to  *)
(* the one resource r1, created at (test, k1).                             *)

InitMutate ==
    /\ InitDelete
    /\ IdentityOf(local["r1"]) = <<"test", "k1">>
    /\ local["r2"] = Unset

NextMutate ==
    \/ \E p \in Procs, r \in HostResources, c \in Containers, k \in Keys,
          t \in ObjectTexts, fault \in BOOLEAN : Update(p, r, c, k, t, fault)
    \/ \E p \in Procs, fault \in BOOLEAN : UpdateDelete(p, fault)
    \/ \E p \in Procs, r \in HostResources : DeleteStart(p, r)
    \/ \E p \in Procs : DeleteLock(p)
    \/ \E p \in Procs, fault \in BOOLEAN : DeleteFetch(p, fault)
    \/ \E p \in Procs, fault \in BOOLEAN : DeleteCall(p, fault)

SpecMutate == InitMutate /\ [][NextMutate]_vars

----------------------------------------------------------------------------
(* Claims *)

IsReturn == last.op \in {"Create", "Read", "Update", "Delete"}

\* The step just taken is the return of the scenario's n-th operation.
ScenAt(n) == scen.step = n /\ IsReturn
LiveWithId(id) == {i \in Identities : store[i].live /\ store[i].id = id}

\* C1: after every Update that changes container or key and returns nil, a
\* live remote object exists at the new (container, key), whether or not
\* the delete call of that Update failed.
C1_NewObjectLiveAfterIdentityUpdate ==
    (last.op = "Update" /\ last.changed /\ last.ok)
        => Live(store, IdentityOf(last.post))

\* C2: the end-to-end scenario from an empty store: Create(test, k1, {a:1})
\* returns version 1 and a remoteId; Read returns the same value and
\* version; the Update of the value returns version 2 and the same
\* remoteId; the Update of the key returns a new remoteId and version 1 at
\* (test, k2), and (test, k1) is deleted unless its deletion failed;
\* Delete succeeds; the final Read leaves the resource absent.
C2_EndToEndScenario ==
    scen.e2e =>
        /\ ScenAt(1)    => /\ last.ok
                            /\ last.post.id # NoId
                            /\ last.post.version = 1
        /\ ScenAt(2)    => /\ last.ok
                            /\ last.post.value = "{a:1}"
                            /\ last.post.version = 1
                            /\ last.post.id = last.old.id
        /\ ScenAt(3)    => /\ last.ok
                            /\ last.post.version = 2
                            /\ last.post.id = last.old.id
        /\ ScenAt(4)    => /\ last.ok
                            /\ last.post.id # last.old.id
                            /\ last.post.version = 1
                            /\ Live(store, <<"test", "k2">>)
                            /\ store[<<"test", "k2">>].id = last.post.id
                            /\ store[<<"test", "k2">>].version = 1
                            /\ (~Live(store, <<"test", "k1">>) \/ ~last.callOk)
        /\ ScenAt(5)    => /\ last.ok
                            /\ ~Live(store, <<"test", "k2">>)
        /\ ScenAt(6)    => /\ last.ok
                            /\ local[scen.res].id = NoId

\* C3: of the Delete calls that run concurrently on the same local
\* resource instance, at most one returns nil.
C3_AtMostOneConcurrentDeleteSucceeds ==
    /\ \A r \in Resources : delOk[r] <= 1
    /\ last.op = "Delete" => last.groupOk <= 1

\* C3 witness: a Delete returns an error after an overlapping Delete of the
\* same resource has returned nil.
C3_Witness ==
    last.op = "Delete" /\ ~last.ok /\ ~last.fault /\ last.groupOk = 1

\* C4: Create at an identity that holds a live remote object returns an
\* error, leaves that object as it was and sets neither the local id nor
\* the local version.
C4_CreateOnLiveIdentityFails ==
    (last.op = "Create" /\ last.obj.live)
        => /\ ~last.ok
           /\ store[last.ident] = last.obj
           /\ local[last.res] = last.old
           /\ local[last.res].id = NoId
           /\ local[last.res].version = NoVersion

\* C4 witness: a Create that reached the store found the identity occupied.
C4_Witness ==
    last.op = "Create" /\ last.obj.live /\ ~last.fault

\* C5: Read of an identity with no live remote object returns nil, leaves
\* the local id empty (the resource is absent) and the store unchanged.
C5_ReadOfAbsentObjectClearsId ==
    (last.op = "Read" /\ ~last.fault /\ ~last.obj.live)
        => /\ last.ok
           /\ last.post.id = NoId
           /\ local[last.res].id = NoId
           /\ last.frame

\* C5 witness: the Read of a resource that had an id found no object.
C5_Witness ==
    last.op = "Read" /\ ~last.fault /\ ~last.obj.live /\ last.old.id # NoId
        /\ last.ident \in Identities

\* C6: the version a successful write (Create or Update) returns is
\* strictly greater than the version the previous successful write to the
\* same identity returned, a Delete and re-Create in between included.
C6_ReturnedVersionsIncrease ==
    last.wrote => last.post.version > last.prevRet

\* C6 witness: an identity written before, then deleted, is created again.
C6_Witness ==
    last.op = "Create" /\ last.wrote /\ last.prevRet >= 1

\* C7: after the Read of an imported resource (only the id is set, and a
\* live remote object has that id), container, key, value and version are
\* those of that remote object.
C7_ReadPopulatesImportedResource ==
    (/\ last.op = "Read" /\ ~last.fault
     /\ last.old.id # NoId
     /\ last.old = [Unset EXCEPT !.id = last.old.id]
     /\ LiveWithId(last.old.id) # {})
        => /\ last.ok
           /\ \E i \in LiveWithId(last.old.id) :
                 /\ last.post.id = last.old.id
                 /\ IdentityOf(last.post) = i
                 /\ last.post.value = store[i].value
                 /\ last.post.version = store[i].version

\* C8: a successful Create with a well-formed JSON text, followed at once
\* by a Read: the value the Read fetches and the value it leaves in the
\* resource are the value supplied, and the version is the one Create
\* returned.
C8_CreateThenReadReturnsValue ==
    (/\ ScenAt(2) /\ ~last.fault
     /\ last.old.id # NoId /\ last.old.value \in WellFormedTexts)
        => /\ last.ok
           /\ last.obj.value = last.old.value
           /\ last.post.value = last.old.value
           /\ last.post.version = last.old.version

\* C9: after a Create, Read or Update that returns nil and leaves the
\* resource with an id, that id is the remoteId of the live remote object
\* at the local (container, key).
C9_LocalIdIsRemoteId ==
    (last.op \in {"Create", "Read", "Update"} /\ last.ok /\ last.post.id # NoId)
        => /\ Live(store, IdentityOf(last.post))
           /\ store[IdentityOf(last.post)].id = last.post.id

\* C10: the delete call of an Update that changes container or key is
\* addressed to the old container and key with the old version and
\* force = true, never to the identity just created.
C10_UpdateDeletesOldIdentity ==
    (last.op = "Update" /\ last.called)
        => /\ last.call.container = last.old.container
           /\ last.call.key = last.old.key
           /\ last.call.version = last.old.version
           /\ last.call.force
           /\ <<last.call.container, last.call.key>> # IdentityOf(last.post)

\* C11: Delete sends the version its own fetch returned, with force = false:
\* when the object it fetched is still the live object at the local identity
\* at the delete call, Delete returns nil and the object is gone, however
\* old the version the resource holds.
C11_DeleteUsesFetchedVersion ==
    (/\ last.op = "Delete" /\ last.called /\ ~last.fault
     /\ last.obj.live /\ last.obj.version = last.fetched)
        => /\ last.ok
           /\ ~Live(store, last.ident)
           /\ <<last.call.container, last.call.key>> = last.ident
           /\ last.call.version = last.fetched
           /\ ~last.call.force

\* C11 witness: a Delete succeeded for a resource that held a stale version.
C11_Witness ==
    /\ last.op = "Delete" /\ last.called /\ last.ok
    /\ last.old.version # last.fetched

\* C12: when Delete's fetch fails, a 404 included, Delete returns the error
\* at once: the thread is back to idle without a delete call and the store
\* is as it was.
C12_DeleteFetchFailureIsFatal ==
    (/\ last.op \in {"Delete", "DeleteFetch"} /\ ~last.called
     /\ (last.fault \/ ~last.obj.live))
        => /\ last.op = "Delete"
           /\ ~last.ok
           /\ proc[last.by].pc = "idle"
           /\ last.frame
           /\ SlotOf(store, last.ident) = last.obj

\* C12 witness: the fetch of a Delete found no object.
C12_Witness ==
    /\ last.op = "Delete" /\ ~last.called /\ ~last.ok
    /\ ~last.fault /\ ~last.obj.live

\* A thread between two remote calls of one handler run.
MidCalls(p) == proc[p].pc \in {"update_delete", "delete"}

\* C13: Updates and Deletes of one local resource instance are serialized:
\* while a thread is between the remote calls of its Update or Delete of a
\* resource, no other thread makes a remote call for that resource.
C13_MutationsSerialized ==
    [][\A p \in Procs :
          (/\ MidCalls(p) /\ proc'[p] = proc[p]
           /\ last'.res = proc[p].res)
              => last'.op \notin {"Update", "UpdateCreate", "DeleteFetch", "Delete"}]_vars

\* The mutexes held are exactly those of the threads between Lock and the
\* return of their Delete.
GuardHeldByRunning ==
    ctMutexKV = {MutexKey(proc[p].d) : p \in {q \in Procs : proc[q].pc \in {"fetch", "delete"}}}

\* C14: Delete releases the mutex on every return (fetch error, delete
\* error, nil): the mutex is never held for a Delete that has returned, and
\* under fair scheduling every Delete waiting in Lock gets the mutex and
\* returns.
C14_DeleteReleasesGuard ==
    /\ []GuardHeldByRunning
    /\ \A p \in Procs : (proc[p].pc = "lock") ~> (proc[p].pc = "idle")

\* C14 witness: a Delete waits in Lock for the mutex another Delete holds.
C14_Witness ==
    \E p \in Procs, q \in Procs :
        /\ proc[p].pc = "lock" /\ proc[q].pc \in {"fetch", "delete"}
        /\ MutexKey(proc[p].d) = MutexKey(proc[q].d)
        /\ MutexKey(proc[p].d) \in ctMutexKV

\* C15: an Update that changes container or key and whose create call
\* succeeded returns nil whatever its delete call returns, with the id and
\* version of the object it created as local id and version; when the delete
\* call fails, that object is still there.
C15_DeleteFailureIsSwallowed ==
    (last.op = "Update" /\ last.called)
        => /\ last.ok
           /\ local[last.res].id = nextId - 1
           /\ local[last.res].version = lastRet[IdentityOf(last.post)]
           /\ IdentityOf(local[last.res]) = IdentityOf(last.post)
           /\ ~last.callOk =>
                 /\ Live(store, IdentityOf(last.post))
                 /\ store[IdentityOf(last.post)].id = local[last.res].id
                 /\ store[IdentityOf(last.post)].version = local[last.res].version

\* C15 witness: the delete call of such an Update failed.
C15_Witness ==
    last.op = "Update" /\ last.called /\ ~last.callOk /\ last.ok

\* C16: an Update that keeps container and key sends the version the
\* resource holds.  On a live object with that version it returns nil, the
\* object keeps its remoteId and gets the next version, which becomes the
\* local version; with another version it returns the error, and the object
\* and the local id and version stay as they were.
C16_SameIdentityUpdateUsesHeldVersion ==
    (last.op = "Update" /\ ~last.changed /\ ~last.fault /\ last.obj.live)
        => IF last.old.version = last.obj.version
           THEN /\ last.ok
                /\ store[last.ident].id = last.obj.id
                /\ store[last.ident].version = last.obj.version + 1
                /\ local[last.res].id = last.obj.id
                /\ local[last.res].version = store[last.ident].version
           ELSE /\ ~last.ok
                /\ last.frame
                /\ store[last.ident] = last.obj
                /\ local[last.res].id = last.old.id
                /\ local[last.res].version = last.old.version

\* C16 witness: such an Update was refused for its stale version.
C16_Witness ==
    /\ last.op = "Update" /\ ~last.changed /\ ~last.fault /\ last.obj.live
    /\ last.old.version # last.obj.version /\ ~last.ok

\* C17: after a Read whose fetch succeeds, the local container, key, value
\* and version are those of the fetched object, whatever they were before.
C17_ReadOverwritesAllFields ==
    (last.op = "Read" /\ ~last.fault /\ last.obj.live)
        => /\ last.ok
           /\ last.post.container = last.ident[1]
           /\ last.post.key = last.ident[2]
           /\ last.post.value = last.obj.value
           /\ last.post.version = last.obj.version
           /\ local[last.res] = last.post

\* The store accepts the write of the step just taken: a create needs a
\* free identity, an update in place a live object of the version sent.
WriteAccepted ==
    IF last.op = "Create" \/ last.changed
    THEN ~last.obj.live
    ELSE last.obj.live /\ last.obj.version = last.old.version

\* C18: a malformed value text is no error: the decoder yields the empty
\* document, and Create and Update make their write call with it; the call
\* fails or succeeds as the store decides, and on success the object holds
\* the empty document.
C18_MalformedValueBecomesEmptyDocument ==
    /\ \A t \in MalformedTexts : _decodeCustomObjectValue(t) = EmptyDoc
    /\ (/\ last.op \in {"Create", "Update", "UpdateCreate"} /\ ~last.called
        /\ last.text \in MalformedTexts /\ ~last.fault)
           => /\ last.ok = WriteAccepted
              /\ last.wrote = WriteAccepted
              /\ WriteAccepted =>
                    /\ store[last.ident].live
                    /\ store[last.ident].value = EmptyDoc

\* C18 witness: a Create or an Update given a malformed text wrote the
\* empty document.
C18_Witness ==
    /\ last.op \in {"Create", "Update"} /\ ~last.called
    /\ last.text \in MalformedTexts /\ last.wrote
    /\ store[last.ident].value = EmptyDoc

\* C19: the mutex is per resource id: a Delete waiting in Lock can take the
\* mutex whenever no Delete of a resource with the same id is between Lock
\* and its return, whatever Deletes of other ids are running.
C19_GuardIsPerResourceId ==
    \A p \in Procs :
        (/\ proc[p].pc = "lock"
         /\ \A q \in Procs \ {p} :
                proc[q].pc \in {"fetch", "delete"} => proc[q].d.id # proc[p].d.id)
            => ENABLED DeleteLock(p)

\* C19 witness: two Deletes of resources with different ids are both
\* between their fetch and their delete call.
C19_Witness ==
    \E p \in Procs, q \in Procs :
        /\ proc[p].pc = "delete" /\ proc[q].pc = "delete"
        /\ proc[p].d.id # proc[q].d.id

\* C20: when the create call of an Update that changes container or key
\* fails, Update returns the error at once: no delete call follows, the
\* store is as it was, the object at the old identity included, and the
\* local id and version are unchanged.
C20_FailedCreateStopsIdentityUpdate ==
    (/\ last.op \in {"Update", "UpdateCreate"} /\ last.changed /\ ~last.called
     /\ (last.fault \/ last.obj.live))
        => /\ last.op = "Update"
           /\ ~last.ok
           /\ proc[last.by].pc = "idle"
           /\ last.frame
           /\ local[last.res].id = last.old.id
           /\ local[last.res].version = last.old.version

\* C20 witness: the new identity of such an Update was occupied.
C20_Witness ==
    /\ last.op = "Update" /\ last.changed /\ ~last.called
    /\ ~last.fault /\ last.obj.live /\ ~last.ok

====
